---------------------------- MODULE Spec2Model ----------------------------
(* PaperDF (pdf_metadata_renamer.py): the metadata-driven rename pipeline. *)
(* Strings are TLA+ strings handled character by character; the file       *)
(* system is a function from absolute paths to files; process_list runs in *)
(* a worker thread that interleaves with the Abort handler of the GUI.     *)
EXTENDS Integers, Sequences, FiniteSets, TLC

(***************************************************************************)
(* Python string primitives                                                *)
(***************************************************************************)
UpperLetters == "ABCDEFGHIJKLMNOPQRSTUVWXYZ"
LowerLetters == "abcdefghijklmnopqrstuvwxyz"

Char(s, i) == SubSeq(s, i, i)

\* "x = e", then body: e is evaluated once and x names its value
Let(e, Body(_)) == CHOOSE r \in {Body(x) : x \in {e}} : TRUE

IsUpper(c) == \E i \in 1..Len(UpperLetters) : Char(UpperLetters, i) = c
IsLower(c) == \E i \in 1..Len(LowerLetters) : Char(LowerLetters, i) = c
IsCased(c) == IsUpper(c) \/ IsLower(c)
IsSpace(c) == c \in {" ", "\t", "\n"}

\* str.lower() and str.upper() of one character
LowerChar(c) ==
    IF IsUpper(c)
    THEN Char(LowerLetters, CHOOSE i \in 1..Len(UpperLetters) : Char(UpperLetters, i) = c)
    ELSE c
UpperChar(c) ==
    IF IsLower(c)
    THEN Char(UpperLetters, CHOOSE i \in 1..Len(LowerLetters) : Char(LowerLetters, i) = c)
    ELSE c

RECURSIVE StrLower(_)
StrLower(s) == IF s = "" THEN "" ELSE LowerChar(Head(s)) \o StrLower(Tail(s))

\* s.lstrip(chars), s.rstrip(chars), s.strip(chars) with chars given as a set
RECURSIVE LStripSet(_, _)
LStripSet(s, cs) ==
    IF s # "" /\ Head(s) \in cs THEN LStripSet(Tail(s), cs) ELSE s
RECURSIVE RStripSet(_, _)
RStripSet(s, cs) ==
    IF s # "" /\ Char(s, Len(s)) \in cs
    THEN RStripSet(SubSeq(s, 1, Len(s) - 1), cs) ELSE s
StripSet(s, cs) == RStripSet(LStripSet(s, cs), cs)

Whitespace == {" ", "\t", "\n"}
\* str.strip()
Strip(s) == StripSet(s, Whitespace)

\* s.startswith(p)
StartsWith(s, p) == Len(s) >= Len(p) /\ SubSeq(s, 1, Len(p)) = p

\* str.split(): the whitespace-delimited tokens, no empty token
RECURSIVE SplitWs(_, _)
SplitWs(s, cur) ==
    IF s = "" THEN (IF cur = "" THEN <<>> ELSE <<cur>>)
    ELSE IF IsSpace(Head(s))
         THEN (IF cur = "" THEN <<>> ELSE <<cur>>) \o SplitWs(Tail(s), "")
         ELSE SplitWs(Tail(s), cur \o Head(s))
Split(s) == SplitWs(s, "")

\* s.split(sep) for a one-character separator: empty fields are kept
RECURSIVE SplitOn(_, _, _)
SplitOn(s, sep, cur) ==
    IF s = "" THEN <<cur>>
    ELSE IF Head(s) = sep THEN <<cur>> \o SplitOn(Tail(s), sep, "")
         ELSE SplitOn(Tail(s), sep, cur \o Head(s))

\* sep.join(parts)
RECURSIVE Join(_, _)
Join(sep, parts) ==
    IF parts = <<>> THEN ""
    ELSE IF Len(parts) = 1 THEN parts[1]
         ELSE parts[1] \o sep \o Join(sep, Tail(parts))

\* s.replace(old, new): leftmost non-overlapping occurrences, old non-empty
RECURSIVE Replace(_, _, _)
Replace(s, old, new) ==
    IF s = "" THEN ""
    ELSE IF StartsWith(s, old)
         THEN new \o Replace(SubSeq(s, Len(old) + 1, Len(s)), old, new)
         ELSE Head(s) \o Replace(Tail(s), old, new)

\* the fallback titlecase of the module: str.title() (a cased character is
\* upper-cased after an uncased one and lower-cased after a cased one)
RECURSIVE TitleFrom(_, _)
TitleFrom(s, prevCased) ==
    IF s = "" THEN ""
    ELSE (IF prevCased THEN LowerChar(Head(s)) ELSE UpperChar(Head(s)))
         \o TitleFrom(Tail(s), IsCased(Head(s)))
titlecase(s) == TitleFrom(s, FALSE)


(***************************************************************************)
(* JSON values as the services return them                                 *)
(***************************************************************************)
\* t is the JSON type; s the text of a string, or str(v) of a number;
\* l the elements of an array (strings and nulls)
JNull == [t |-> "null", s |-> "", l |-> <<>>]
JStr(x) == [t |-> "str", s |-> x, l |-> <<>>]
JNum(x) == [t |-> "num", s |-> x, l |-> <<>>]
JBool(b) == [t |-> "bool", s |-> IF b THEN "True" ELSE "False", l |-> <<>>]
JList(xs) == [t |-> "list", s |-> "", l |-> xs]

\* Python truthiness of a JSON value (the "x or default" idiom)
Truthy(v) ==
    CASE v.t = "null" -> FALSE
      [] v.t = "str"  -> v.s # ""
      [] v.t = "num"  -> v.s # "0"
      [] v.t = "bool" -> v.s = "True"
      [] v.t = "list" -> v.l # <<>>

(***************************************************************************)
(* get_metadata_from_snippet: the cleaning of the extracted record         *)
(***************************************************************************)
YearUnknownTokens == {"unknown", "unknownyear", "n/a", "na"}
unknown_tokens ==
    {"unknown", "n/a", "na", "none", "anonymous", "unknown author", "unknownauthors"}

\* line 468
NormalizeYear(raw_year) ==
    IF raw_year.t = "null" \/ Strip(raw_year.s) = ""
       \/ StrLower(Strip(raw_year.s)) \in YearUnknownTokens
    THEN "n.d."
    ELSE Strip(raw_year.s)

\* lines 470-475; err when an element has no strip() or the value cannot be iterated
NormalizeAuthors(raw) ==
    LET KeepNonBlank(a) == Strip(a) # ""
        KeepKnown(a) == Strip(a) # "" /\ StrLower(Strip(a)) \notin unknown_tokens
        asList ==
            IF ~Truthy(raw) THEN <<>>
            ELSE IF raw.t = "str"
                 THEN LET parts == SplitOn(raw.s, ",", "")
                          stripped == [i \in 1..Len(parts) |-> Strip(parts[i])]
                      IN  SelectSeq(stripped, KeepNonBlank)
                 ELSE [i \in 1..Len(raw.l) |-> raw.l[i].s]
        bad == Truthy(raw)
               /\ (raw.t \in {"num", "bool"}
                   \/ (raw.t = "list" /\ \E i \in 1..Len(raw.l) : raw.l[i].t # "str"))
        kept == SelectSeq(asList, KeepKnown)
    IN  IF bad THEN [err |-> TRUE, v |-> <<>>]
        ELSE [err |-> FALSE, v |-> [i \in 1..Len(kept) |-> titlecase(kept[i])]]

\* lines 477-481 and 483-487: (raw or '').strip(); err when raw is truthy and no string
NormalizeText(raw, sentinels) ==
    IF Truthy(raw) /\ raw.t # "str" THEN [err |-> TRUE, v |-> ""]
    ELSE Let(IF Truthy(raw) THEN Strip(raw.s) ELSE "", LAMBDA x :
         Let(IF StrLower(x) \in sentinels THEN "" ELSE x, LAMBDA y :
             [err |-> FALSE, v |-> IF y # "" THEN titlecase(y) ELSE ""]))

NormalizeJournal(raw) == NormalizeText(raw, unknown_tokens)

\* a cleaning of the title that compares it with the sentinels as it is spelt
NormalizeTitleCaseSensitive(raw) ==
    IF Truthy(raw) /\ raw.t # "str" THEN [err |-> TRUE, v |-> ""]
    ELSE LET x == IF Truthy(raw) THEN Strip(raw.s) ELSE ""
             y == IF x \in unknown_tokens \cup {"unknowntitle"} THEN "" ELSE x
         IN  [err |-> FALSE, v |-> IF y # "" THEN titlecase(y) ELSE ""]

NormalizeTitle(raw) == NormalizeText(raw, unknown_tokens \cup {"unknowntitle"})

\* a reply of the extraction service: the call raises, the text is no JSON, the JSON
\* is no object, or it is an object with (lower-cased) keys
Reply(kind, authors, year, journal, title) ==
    [kind |-> kind, authors |-> authors, year |-> year, journal |-> journal,
     title |-> title]

NoMeta == [authors |-> <<>>, year |-> "", journal |-> "", title |-> ""]

\* lines 444-489: ok is FALSE when the function raises
get_metadata_from_snippet(reply) ==
    Let(NormalizeAuthors(reply.authors), LAMBDA a :
    Let(NormalizeJournal(reply.journal), LAMBDA j :
    Let(NormalizeTitle(reply.title), LAMBDA t :
        IF reply.kind # "dict" \/ a.err \/ j.err \/ t.err
        THEN [ok |-> FALSE, meta |-> NoMeta]
        ELSE [ok |-> TRUE,
              meta |-> [authors |-> a.v, year |-> NormalizeYear(reply.year),
                        journal |-> j.v, title |-> t.v]])))

\* an emptiness test that does not know the placeholder the cleaning gives the year
MetadataAllEmptyButYear(meta) ==
    /\ \A i \in 1..Len(meta.authors) :
           StrLower(Strip(meta.authors[i])) \in {"", "unknownauthors", "unknown author",
                                                 "unknown"}
    /\ StrLower(Strip(meta.year)) \in {"", "unknown", "unknownyear"}
    /\ Strip(meta.journal) = ""
    /\ StrLower(Strip(meta.title)) \in {"", "unknowntitle"}

\* lines 491-500
_metadata_all_empty(meta) ==
    LET authors_norm == [i \in 1..Len(meta.authors) |-> StrLower(Strip(meta.authors[i]))]
        authors_empty ==
            Len(authors_norm) = 0
            \/ \A i \in 1..Len(authors_norm) :
                   authors_norm[i] \in {"", "unknownauthors", "unknown author", "unknown"}
        year_empty ==
            StrLower(Strip(meta.year)) \in {"", "n.d.", "nd", "unknown", "unknownyear"}
        journal_empty == Strip(meta.journal) = ""
        title_val == Strip(meta.title)
        title_empty == title_val = "" \/ StrLower(title_val) = "unknowntitle"
    IN  authors_empty /\ year_empty /\ journal_empty /\ title_empty

(***************************************************************************)
(* Configuration (module globals, lines 127-135)                           *)
(***************************************************************************)
VARIABLES OUTPUT_PATTERN, BOOK_OUTPUT_PATTERN, UNPUBLISHED_PLACEHOLDER,
          AUTHOR_FMT_PAPER, AUTHOR_FMT_BOOK, API_KEY

INVALID_FILENAME_CHARS == "<>:\"/\\|?*"
DEFAULT_OUTPUT_PATTERN == "{journal} - {year} - {authors} - {title}.pdf"
DEFAULT_BOOK_OUTPUT_PATTERN == "{authors} - {title} - {journal} ({year}).pdf"
DEFAULT_UNPUBLISHED == "Unpublished"
DEFAULT_AUTHOR_FMT_PAPER == "{surname}"
DEFAULT_AUTHOR_FMT_BOOK == "{surname}, {first_initial}."

(***************************************************************************)
(* Author formatting                                                       *)
(***************************************************************************)
_SUFFIXES == {"jr", "jr.", "sr.", "ii", "iii", "iv"}

Comps(first, middle, surname, suffix) ==
    [first |-> first, middle |-> middle, surname |-> surname, suffix |-> suffix]

\* re.sub(r'[;,]', ' ', full)
RECURSIVE SeparatorsToSpaces(_)
SeparatorsToSpaces(s) ==
    IF s = "" THEN ""
    ELSE (IF Head(s) \in {";", ","} THEN " " ELSE Head(s)) \o SeparatorsToSpaces(Tail(s))

\* a parser that takes a name of one token for a first name
ParseAuthorSingleIsFirst(full) ==
    IF full = "" THEN Comps("", "", "", "")
    ELSE LET all == Split(Strip(SeparatorsToSpaces(full)))
             hasSuffix == all # <<>> /\ StrLower(all[Len(all)]) \in _SUFFIXES
             suffix == IF hasSuffix THEN all[Len(all)] ELSE ""
             parts == IF hasSuffix THEN SubSeq(all, 1, Len(all) - 1) ELSE all
         IN  IF parts = <<>> THEN Comps("", "", "", suffix)
             ELSE IF Len(parts) = 1 THEN Comps(parts[1], "", "", suffix)
             ELSE Comps(parts[1], Join(" ", SubSeq(parts, 2, Len(parts) - 1)),
                        parts[Len(parts)], suffix)

\* a parser that reads a name as "surname first"
ParseAuthorSurnameFirst(full) ==
    IF full = "" THEN Comps("", "", "", "")
    ELSE LET all == Split(Strip(SeparatorsToSpaces(full)))
             hasSuffix == all # <<>> /\ StrLower(all[Len(all)]) \in _SUFFIXES
             suffix == IF hasSuffix THEN all[Len(all)] ELSE ""
             parts == IF hasSuffix THEN SubSeq(all, 1, Len(all) - 1) ELSE all
         IN  IF parts = <<>> THEN Comps("", "", "", suffix)
             ELSE IF Len(parts) = 1 THEN Comps("", "", parts[1], suffix)
             ELSE Comps(parts[Len(parts)], Join(" ", SubSeq(parts, 2, Len(parts) - 1)),
                        parts[1], suffix)

\* lines 507-523
_parse_author(full) ==
    IF full = "" THEN Comps("", "", "", "")
    ELSE Let(SeparatorsToSpaces(full), LAMBDA spaced :
         Let(Strip(spaced), LAMBDA stripped :
         Let(Split(stripped), LAMBDA all :
         LET hasSuffix == all # <<>> /\ StrLower(all[Len(all)]) \in _SUFFIXES
             suffix == IF hasSuffix THEN all[Len(all)] ELSE ""
         IN  Let(IF hasSuffix THEN SubSeq(all, 1, Len(all) - 1) ELSE all, LAMBDA parts :
             IF parts = <<>> THEN Comps("", "", "", suffix)
             ELSE IF Len(parts) = 1 THEN Comps("", "", parts[1], suffix)
             ELSE Let(SubSeq(parts, 2, Len(parts) - 1), LAMBDA mid :
                      Comps(parts[1], Join(" ", mid), parts[Len(parts)], suffix))))))

\* lines 525-526
_initial(s) == IF s # "" THEN UpperChar(Head(s)) ELSE ""

\* lines 528-531
_middle_initials(m) ==
    IF m = "" THEN ""
    ELSE Let(Split(m), LAMBDA tokens :
         Let([i \in 1..Len(tokens) |-> _initial(tokens[i]) \o "."], LAMBDA dotted :
             Join(" ", dotted)))

\* re.sub(r'\s+', ' ', s)
RECURSIVE CollapseWhitespace(_)
CollapseWhitespace(s) ==
    IF s = "" THEN ""
    ELSE IF IsSpace(Head(s)) THEN " " \o CollapseWhitespace(LStripSet(s, Whitespace))
         ELSE Head(s) \o CollapseWhitespace(Tail(s))

\* re.sub(r'\s+X', 'X', s) for a character X: a whitespace run before X is dropped
RECURSIVE DropSpaceBefore(_, _)
DropSpaceBefore(s, x) ==
    IF s = "" THEN ""
    ELSE LET rest == LStripSet(s, Whitespace)
         IN  IF IsSpace(Head(s)) /\ rest # "" /\ Head(rest) = x
             THEN x \o DropSpaceBefore(Tail(rest), x)
             ELSE Head(s) \o DropSpaceBefore(Tail(s), x)

\* re.sub(r',\s*,', ',', s): leftmost matches, not overlapping, in one pass
RECURSIVE CollapseCommas(_)
CollapseCommas(s) ==
    IF s = "" THEN ""
    ELSE LET rest == LStripSet(Tail(s), Whitespace)
         IN  IF Head(s) = "," /\ rest # "" /\ Head(rest) = ","
             THEN "," \o CollapseCommas(Tail(rest))
             ELSE Head(s) \o CollapseCommas(Tail(s))

\* re.sub(r'\(\s*\)', '', s)
RECURSIVE RemoveEmptyParens(_)
RemoveEmptyParens(s) ==
    IF s = "" THEN ""
    ELSE LET rest == LStripSet(Tail(s), Whitespace)
         IN  IF Head(s) = "(" /\ rest # "" /\ Head(rest) = ")"
             THEN RemoveEmptyParens(Tail(rest))
             ELSE Head(s) \o RemoveEmptyParens(Tail(s))

\* lines 548-551: the whitespace and punctuation cleanup
Cleanup(out) ==
    Let(CollapseWhitespace(out), LAMBDA s0 :
    Let(Strip(s0), LAMBDA s1 :
    Let(DropSpaceBefore(s1, ","), LAMBDA s2 :
    Let(CollapseCommas(s2), LAMBDA s3 :
    Let(RemoveEmptyParens(s3), LAMBDA s4 :
    Let(DropSpaceBefore(s4, "."), LAMBDA s5 :
        StripSet(s5, {" ", ","})))))))

\* lines 534-547: the tokens are replaced one after the other, in this order
Substitute(fmt, comps) ==
    Let(Replace(fmt, "{first}", comps.first), LAMBDA r1 :
    Let(Replace(r1, "{middle}", comps.middle), LAMBDA r2 :
    Let(Replace(r2, "{surname}", comps.surname), LAMBDA r3 :
    Let(Replace(r3, "{last}", comps.surname), LAMBDA r4 :
    Let(Replace(r4, "{family}", comps.surname), LAMBDA r5 :
    Let(Replace(r5, "{suffix}", comps.suffix), LAMBDA r6 :
    Let(Replace(r6, "{first_initial}", _initial(comps.first)), LAMBDA r7 :
    Let(Replace(r7, "{surname_initial}", _initial(comps.surname)), LAMBDA r8 :
    Let(_middle_initials(comps.middle), LAMBDA mi :
        Replace(r8, "{middle_initials}", mi))))))))))

\* lines 533-552
_render_author(fmt, comps) ==
    Let(Substitute(fmt, comps), LAMBDA raw :
    Let(Cleanup(raw), LAMBDA out :
        IF out # "" THEN titlecase(out) ELSE ""))

\* a formatter without the fallback for a list that renders to nothing
FormatAuthorsNoFallback(authors_list, is_book) ==
    LET fmt == IF is_book THEN AUTHOR_FMT_BOOK ELSE AUTHOR_FMT_PAPER
        NonEmpty(x) == x # ""
        all == [i \in 1..Len(authors_list) |->
                  _render_author(fmt, _parse_author(authors_list[i]))]
    IN  Join(", ", SelectSeq(all, NonEmpty))

\* lines 554-564
format_authors_list(authors_list, is_book) ==
    LET fmt == IF is_book THEN AUTHOR_FMT_BOOK ELSE AUTHOR_FMT_PAPER
        NonEmpty(x) == x # ""
    IN  IF authors_list = <<>> THEN "UnknownAuthors"
        ELSE Let([i \in 1..Len(authors_list) |->
                    Let(_parse_author(authors_list[i]), LAMBDA comps :
                        _render_author(fmt, comps))],
                 LAMBDA all :
             Let(SelectSeq(all, NonEmpty), LAMBDA rendered :
                 IF rendered # <<>> THEN Join(", ", rendered) ELSE "UnknownAuthors"))

(***************************************************************************)
(* Filename builder                                                        *)
(***************************************************************************)
\* index of the first occurrence of character c in s, 0 when there is none
RECURSIVE FindFrom(_, _, _)
FindFrom(s, c, i) ==
    IF i > Len(s) THEN 0 ELSE IF Char(s, i) = c THEN i ELSE FindFrom(s, c, i + 1)
Find(s, c) == FindFrom(s, c, 1)

\* pattern.format(journal=, year=, authors=, title=) for replacement fields that are
\* plain names: "{{" and "}}" are literal braces, "{name}" is the value of a keyword
\* (KeyError otherwise), a single brace is a ValueError. The values are not rescanned.
RECURSIVE PyFormat(_, _)
PyFormat(pattern, kw) ==
    IF pattern = "" THEN [err |-> FALSE, s |-> ""]
    ELSE IF StartsWith(pattern, "{{") \/ StartsWith(pattern, "}}")
    THEN Let(PyFormat(SubSeq(pattern, 3, Len(pattern)), kw), LAMBDA r :
             [err |-> r.err, s |-> Head(pattern) \o r.s])
    ELSE IF Head(pattern) = "}" THEN [err |-> TRUE, s |-> ""]
    ELSE IF Head(pattern) = "{"
    THEN Let(Find(pattern, "}"), LAMBDA close :
         Let(SubSeq(pattern, 2, close - 1), LAMBDA name :
             IF close = 0 \/ name \notin DOMAIN kw THEN [err |-> TRUE, s |-> ""]
             ELSE Let(PyFormat(SubSeq(pattern, close + 1, Len(pattern)), kw), LAMBDA r :
                      [err |-> r.err, s |-> kw[name] \o r.s])))
    ELSE Let(PyFormat(Tail(pattern), kw), LAMBDA r :
             [err |-> r.err, s |-> Head(pattern) \o r.s])

InvalidChars == {Char(INVALID_FILENAME_CHARS, i) : i \in 1..Len(INVALID_FILENAME_CHARS)}

\* a filter whose set of characters has no backslash in it
RECURSIVE RemoveInvalidKeepsBackslash(_)
RemoveInvalidKeepsBackslash(s) ==
    IF s = "" THEN ""
    ELSE (IF Head(s) \in InvalidChars \ {"\\"} THEN "" ELSE Head(s))
         \o RemoveInvalidKeepsBackslash(Tail(s))

\* ''.join(c for c in filename if c not in INVALID_FILENAME_CHARS)
RECURSIVE RemoveInvalid(_)
RemoveInvalid(s) ==
    IF s = "" THEN ""
    ELSE (IF Head(s) \in InvalidChars THEN "" ELSE Head(s)) \o RemoveInvalid(Tail(s))

\* lines 569-580: ok is FALSE when pattern.format raises
build_new_filename(meta, is_book) ==
    LET journal == IF meta.journal # "" THEN meta.journal ELSE UNPUBLISHED_PLACEHOLDER
        pattern == IF is_book THEN BOOK_OUTPUT_PATTERN ELSE OUTPUT_PATTERN
    IN  Let(format_authors_list(meta.authors, is_book), LAMBDA authors_str :
        Let(PyFormat(pattern, [journal |-> journal, year |-> meta.year,
                               authors |-> authors_str, title |-> meta.title]),
            LAMBDA filename :
               IF filename.err THEN [ok |-> FALSE, name |-> ""]
               ELSE Let(RemoveInvalid(filename.s), LAMBDA kept :
                    Let(Split(kept), LAMBDA words :
                        [ok |-> TRUE, name |-> Join(" ", words)]))))

(***************************************************************************)
(* Paths (os.path, POSIX) and the file system                              *)
(***************************************************************************)
\* index of the last occurrence of character c in s, 0 when there is none
RECURSIVE RFindFrom(_, _, _)
RFindFrom(s, c, i) ==
    IF i = 0 THEN 0 ELSE IF Char(s, i) = c THEN i ELSE RFindFrom(s, c, i - 1)
RFind(s, c) == RFindFrom(s, c, Len(s))

\* os.path.dirname
dirname(p) ==
    LET head == SubSeq(p, 1, RFind(p, "/"))
    IN  IF head # "" /\ LStripSet(head, {"/"}) # "" THEN RStripSet(head, {"/"}) ELSE head

\* os.path.basename
basename(p) == SubSeq(p, RFind(p, "/") + 1, Len(p))

\* os.path.join(a, b)
join(a, b) ==
    IF StartsWith(b, "/") THEN b
    ELSE IF a = "" \/ Char(a, Len(a)) = "/" THEN a \o b
    ELSE a \o "/" \o b

\* os.path.normpath of an absolute path: empty and "." components are dropped
\* and ".." removes the component before it
RECURSIVE NormComps(_, _)
NormComps(comps, acc) ==
    IF comps = <<>> THEN acc
    ELSE IF Head(comps) \in {"", "."} THEN NormComps(Tail(comps), acc)
    ELSE IF Head(comps) = ".."
         THEN NormComps(Tail(comps),
                        IF acc = <<>> THEN acc ELSE SubSeq(acc, 1, Len(acc) - 1))
    ELSE NormComps(Tail(comps), Append(acc, Head(comps)))
normpath(p) ==
    Let(SplitOn(p, "/", ""), LAMBDA comps :
    Let(NormComps(comps, <<>>), LAMBDA kept : "/" \o Join("/", kept)))

\* the working directory of the process
Cwd == "/w"

\* os.path.abspath
abspath(p) ==
    Let(IF StartsWith(p, "/") THEN p ELSE join(Cwd, p), LAMBDA full : normpath(full))

\* os.path.splitext of a bare file name: the extension starts at the last dot,
\* unless only dots precede it
splitext(name) ==
    LET dot == RFind(name, ".")
    IN  IF dot > 0 /\ LStripSet(SubSeq(name, 1, dot - 1), {"."}) # ""
        THEN [base |-> SubSeq(name, 1, dot - 1), ext |-> SubSeq(name, dot, Len(name))]
        ELSE [base |-> name, ext |-> ""]

\* f"{n}" of a non-negative integer
Digits == "0123456789"
RECURSIVE IntToStr(_)
IntToStr(n) ==
    IF n < 10 THEN Char(Digits, n + 1)
    ELSE IntToStr(n \div 10) \o Char(Digits, (n % 10) + 1)

\* hashlib.sha1(content).hexdigest() of the file contents of the model
Sha1Hex(content) ==
    CASE content = "P"  -> "511993d3c99719e38a6779073019dacd7178ddb9"
      [] content = "Q"  -> "c3156e00d3c2588c639e0d3cf6821258b05761c7"
      [] content = "PQ" -> "ee774cb519a3d447353bf668e7b20df11f7b7097"

\* fs maps the absolute path of every file of the directory to its bytes and to
\* whether this process may read them. fs_stable is FALSE for a file system that
\* answers "exists" for every path and never lets two files compare equal.
VARIABLES fs, fs_stable

File(content, readable) == [content |-> content, readable |-> readable]

\* os.path.exists
exists(p) == ~fs_stable \/ abspath(p) \in DOMAIN fs

\* open(p, 'rb') succeeds
CanRead(p) == Let(abspath(p), LAMBDA q : q \in DOMAIN fs /\ fs[q].readable)

\* lines 585-590: err when the file cannot be opened
_sha1_hex(p) ==
    Let(abspath(p), LAMBDA q :
        IF q \in DOMAIN fs /\ fs[q].readable
        THEN [err |-> FALSE, hex |-> Sha1Hex(fs[q].content)]
        ELSE [err |-> TRUE, hex |-> ""])

\* lines 592-598: any exception (a missing or unreadable file) gives False
_same_file(a, b) ==
    /\ fs_stable
    /\ Let(abspath(a), LAMBDA pa :
       Let(abspath(b), LAMBDA pb :
           /\ pa \in DOMAIN fs /\ pb \in DOMAIN fs
           /\ Len(fs[pa].content) = Len(fs[pb].content)))
    /\ Let(_sha1_hex(a), LAMBDA ha :
       Let(_sha1_hex(b), LAMBDA hb : ~ha.err /\ ~hb.err /\ ha.hex = hb.hex))

\* os.replace(src, dst) on fs: dst is created or silently overwritten
Moved(src, dst) ==
    Let(abspath(src), LAMBDA from :
    Let(abspath(dst), LAMBDA to :
        [p \in (DOMAIN fs \ {from}) \cup {to} |-> IF p = to THEN fs[from] ELSE fs[p]]))

(***************************************************************************)
(* Filename format validator                                               *)
(***************************************************************************)
VReply(kind, ok) == [kind |-> kind, ok |-> ok]

\* a validator that takes any truthy "ok" for a yes
FilenameAlreadyFormattedTruthy(reply) ==
    reply.kind = "dict" /\ reply.ok.t # "str" /\ Truthy(reply.ok)

\* lines 628-643: reply is what the model call gives: it raises, its text is no
\* JSON, the JSON is no object, or it is an object whose "ok" is reply.ok (JNull
\* when the key is missing)
filename_already_formatted(reply) ==
    IF reply.kind # "dict" THEN FALSE
    ELSE IF reply.ok.t = "bool" THEN reply.ok.s = "True"
    ELSE IF reply.ok.t = "str"
         THEN StrLower(Strip(reply.ok.s)) \in {"true", "yes", "y", "1"}
    ELSE FALSE

(***************************************************************************)
(* process_list in its worker thread, and the Start and Abort handlers     *)
(***************************************************************************)
\* file_list, is_book: the arguments on_start hands to process_list.
\* stop_event: the cancellation flag.  start_btn, abort_btn: the buttons' states.
\* pc: where the worker thread is.  idx, path, meta, new_name, dst, base, ext,
\* short, counter: the locals of process_list.  done_logged: 'Done!' was logged.
VARIABLES file_list, is_book, stop_event, start_btn, abort_btn, pc,
          idx, path, meta, new_name, dst, base, ext, short, counter, done_logged

\* What the run has done so far, kept to state the properties: the decision of the
\* document in hand, the functions called for it, the paths os.path.exists was asked
\* about, the function that raised, the file system when it was dispatched, what the
\* format validator returned and whether its reply was a usable one, whether the
\* extracted record was empty as received; the documents dispatched so far; whether
\* Abort was pressed since Start; whether some document failed.
VARIABLES decision, calls, probes, raised, fs_at_dispatch, formatted, reply_usable,
          raw_empty, dispatched, abort_requested, failed_seen

\* fs_at_start: the directory as the batch found it.  call: the function of the
\* module that was called on its own, outside a batch, with its argument and result.
VARIABLES fs_at_start, call

settings == <<OUTPUT_PATTERN, BOOK_OUTPUT_PATTERN, UNPUBLISHED_PLACEHOLDER,
              AUTHOR_FMT_PAPER, AUTHOR_FMT_BOOK, API_KEY>>
\* what no step of a batch writes
config == <<settings, file_list, is_book, fs_stable, fs_at_start, call>>
gui == <<start_btn, abort_btn>>
locals == <<idx, path, meta, new_name, dst, base, ext, short, counter>>
history == <<decision, calls, probes, raised, fs_at_dispatch, formatted,
             reply_usable, raw_empty, dispatched, failed_seen>>
vars == <<config, fs, stop_event, gui, pc, locals, done_logged, history,
          abort_requested>>

\* the collision loop of the model counts up to this counter, which then stands for
\* every larger one (the code has no such limit); no stable file system of the model
\* lets the loop get that far
MaxCounter == 6
\* the documents of a batch, and the files already in the way of the built name
MaxBatch == 2
MaxChain == 2

\* the replies of the format validator
ValidatorReplies ==
    {VReply("raise", JNull), VReply("nonjson", JNull), VReply("nondict", JNull)}
    \cup {VReply("dict", ok) :
            ok \in {JBool(TRUE), JBool(FALSE), JStr(" Yes "), JStr("true"), JStr("no"),
                    JStr(""), JNull, JNum("1"), JList(<<JStr("true")>>)}}

\* the replies of the extraction service
MainReply ==
    Reply("dict", JList(<<JStr("jane doe")>>), JNum("2020"), JStr("acm"), JStr("a study"))
ExtractionReplies ==
    { Reply("raise", JNull, JNull, JNull, JNull),
      Reply("nonjson", JNull, JNull, JNull, JNull),
      Reply("nondict", JNull, JNull, JNull, JNull),
      MainReply,
      Reply("dict", JStr("jane doe"), JStr(" 2020 "), JStr("ACM"), JStr("A study")),
      Reply("dict", JNull, JNull, JNull, JNull),
      Reply("dict", JStr("unknown, N/A ,"), JStr(" n/a "), JStr("None"), JStr("UnknownTitle")),
      Reply("dict", JList(<<JStr(" "), JStr("Anonymous")>>), JStr(""), JStr(" "), JStr("")),
      Reply("dict", JList(<<JStr("jane doe")>>), JStr("2020"), JStr("acm"), JStr(" ")),
      Reply("dict", JList(<<JNull>>), JStr("2020"), JStr("acm"), JStr("a study")),
      Reply("dict", JNull, JNull, JNum("7"), JStr("a study")) }

\* a reply the validator can use: an object whose "ok" is a boolean or a string
ReplyUsable(reply) == reply.kind = "dict" /\ reply.ok.t \in {"bool", "str"}

\* a field of the record as received that carries nothing: absent, blank, or one of
\* the tokens the cleaning of that field drops
BlankOrIn(x, tokens) == Strip(x) = "" \/ StrLower(Strip(x)) \in tokens
RawFieldEmpty(raw, tokens) ==
    raw.t = "null" \/ (raw.t = "str" /\ BlankOrIn(raw.s, tokens))
RawAuthorsEmpty(raw) ==
    \/ raw.t = "null"
    \/ raw.t = "str"
       /\ LET parts == SplitOn(raw.s, ",", "")
          IN  \A i \in 1..Len(parts) : BlankOrIn(parts[i], unknown_tokens)
    \/ raw.t = "list"
       /\ \A i \in 1..Len(raw.l) :
              raw.l[i].t = "str" /\ BlankOrIn(raw.l[i].s, unknown_tokens)
RawAllEmpty(reply) ==
    /\ reply.kind = "dict"
    /\ RawAuthorsEmpty(reply.authors)
    /\ RawFieldEmpty(reply.year, YearUnknownTokens)
    /\ RawFieldEmpty(reply.journal, unknown_tokens)
    /\ RawFieldEmpty(reply.title, unknown_tokens \cup {"unknowntitle"})

\* what the two services can make the pipeline see: whether the validator says
\* "formatted", and the cleaned record (or the failure) of the extraction
ValidatorOutcomes ==
    {[usable |-> ReplyUsable(reply), ok |-> filename_already_formatted(reply)] :
        reply \in ValidatorReplies}
ExtractionOutcomes ==
    {[raw_empty |-> RawAllEmpty(reply), got |-> get_metadata_from_snippet(reply)] :
        reply \in ExtractionReplies}

\* a numbering that starts one too far
NumberedCandidateSkips(b, sh, n, e) ==
    b \o " [" \o sh \o "-" \o IntToStr(n + 1) \o "]" \o e

\* lines 687 and 696: the digest-suffixed names
Candidate(b, sh, e) == b \o " [" \o sh \o "]" \o e
NumberedCandidate(b, sh, n, e) == b \o " [" \o sh \o "-" \o IntToStr(n) \o "]" \o e

NoCall == [fn |-> "", arg |-> "", ret |-> ""]

NoLocals ==
    /\ meta' = NoMeta /\ new_name' = "" /\ dst' = "" /\ base' = "" /\ ext' = ""
    /\ short' = "" /\ counter' = 0

\* a terminal decision that is no failure: logged, then the loop goes on ("continue",
\* or the end of the loop body)
Decide(d) ==
    /\ decision' = d
    /\ pc' = "loop_head"
    /\ UNCHANGED failed_seen

\* a handler that gives the batch up on the first error
ExceptHandlerBreaks(fn) ==
    /\ raised' = fn
    /\ decision' = "Failed"
    /\ failed_seen' = TRUE
    /\ pc' = "tail"

\* lines 703-705: the per-document handler logs the error and the loop goes on
ExceptHandler(fn) ==
    /\ raised' = fn
    /\ decision' = "Failed"
    /\ failed_seen' = TRUE
    /\ pc' = "loop_head"

\* lines 785-806: Start disables itself, enables Abort and starts the worker
on_start ==
    /\ pc = "idle" /\ start_btn = "normal"
    /\ start_btn' = "disabled" /\ abort_btn' = "normal"
    /\ pc' = "begin"
    /\ UNCHANGED <<config, fs, stop_event, locals, done_logged, history, abort_requested>>

\* lines 808-809, in the GUI thread, whenever the Abort button is enabled
on_abort ==
    /\ abort_btn = "normal"
    /\ stop_event' = TRUE
    /\ abort_requested' = TRUE
    /\ UNCHANGED <<config, fs, gui, pc, locals, done_logged, history>>

\* lines 650-657
ProcessListBegin ==
    /\ pc = "begin"
    /\ IF ~API_KEY
       THEN pc' = "exit" /\ UNCHANGED stop_event
       ELSE pc' = "loop_head" /\ stop_event' = FALSE
    /\ UNCHANGED <<config, fs, gui, locals, done_logged, history, abort_requested>>

\* lines 658-661: the next document is taken, unless the flag is set
LoopHead ==
    /\ pc = "loop_head"
    /\ IF idx = Len(file_list) \/ stop_event
       THEN /\ pc' = "tail"
            /\ UNCHANGED <<locals, history>>
       ELSE /\ pc' = "check_formatted"
            /\ idx' = idx + 1
            /\ path' = file_list[idx + 1]
            /\ NoLocals
            /\ decision' = "None" /\ calls' = {} /\ probes' = <<>> /\ raised' = ""
            /\ formatted' = "None" /\ reply_usable' = FALSE /\ raw_empty' = FALSE
            /\ fs_at_dispatch' = fs
            /\ dispatched' = Append(dispatched, file_list[idx + 1])
            /\ UNCHANGED failed_seen
    /\ UNCHANGED <<config, fs, stop_event, gui, done_logged, abort_requested>>

\* a pipeline that asks the validator and goes on to the extraction whatever it says
CheckFormattedUnheeded ==
    /\ pc = "check_formatted"
    /\ \E v \in ValidatorOutcomes :
          /\ calls' = calls \cup {"filename_already_formatted"}
          /\ reply_usable' = v.usable
          /\ formatted' = IF v.ok THEN "True" ELSE "False"
          /\ pc' = "extract"
          /\ UNCHANGED <<decision, failed_seen>>
    /\ UNCHANGED <<config, fs, stop_event, gui, locals, done_logged, probes, raised,
                   fs_at_dispatch, raw_empty, dispatched, abort_requested>>

\* lines 662-665
CheckFormatted ==
    /\ pc = "check_formatted"
    /\ \E v \in ValidatorOutcomes :
          /\ calls' = calls \cup {"filename_already_formatted"}
          /\ reply_usable' = v.usable
          /\ IF v.ok
             THEN formatted' = "True" /\ Decide("AlreadyFormatted")
             ELSE formatted' = "False" /\ pc' = "extract"
                  /\ UNCHANGED <<decision, failed_seen>>
    /\ UNCHANGED <<config, fs, stop_event, gui, locals, done_logged, probes, raised,
                   fs_at_dispatch, raw_empty, dispatched, abort_requested>>

\* lines 666-667: the snippet is read from the file (which can fail: no PDF, or no
\* file to open), then the service is asked
Extract ==
    /\ pc = "extract"
    /\ \E snippet_ok \in BOOLEAN, e \in ExtractionOutcomes :
          IF ~snippet_ok \/ ~CanRead(path)
          THEN /\ calls' = calls \cup {"extract_first_n_pages"}
               /\ ExceptHandler("extract_first_n_pages")
               /\ UNCHANGED <<locals, raw_empty>>
          ELSE /\ calls' = calls \cup {"extract_first_n_pages", "get_metadata_from_snippet"}
               /\ raw_empty' = e.raw_empty
               /\ IF e.got.ok
                  THEN /\ meta' = e.got.meta
                       /\ pc' = "skip_rules"
                       /\ UNCHANGED <<idx, path, new_name, dst, base, ext, short, counter,
                                      decision, raised, failed_seen>>
                  ELSE /\ ExceptHandler("get_metadata_from_snippet")
                       /\ UNCHANGED locals
    /\ UNCHANGED <<config, fs, stop_event, gui, done_logged, probes, fs_at_dispatch,
                   formatted, reply_usable, dispatched, abort_requested>>

\* the two skip rules the other way round
SkipRulesEmptyFirst ==
    /\ pc = "skip_rules"
    /\ calls' = calls \cup {"_metadata_all_empty"}
    /\ IF _metadata_all_empty(meta)
       THEN Decide("Skipped(empty-metadata)")
       ELSE IF is_book /\ Strip(meta.title) = ""
       THEN Decide("Skipped(book-title-missing)")
       ELSE pc' = "build" /\ UNCHANGED <<decision, failed_seen>>
    /\ UNCHANGED <<config, fs, stop_event, gui, locals, done_logged, probes, raised,
                   fs_at_dispatch, formatted, reply_usable, raw_empty, dispatched,
                   abort_requested>>

\* lines 668-673
SkipRules ==
    /\ pc = "skip_rules"
    /\ IF is_book /\ Strip(meta.title) = ""
       THEN Decide("Skipped(book-title-missing)") /\ UNCHANGED calls
       ELSE /\ calls' = calls \cup {"_metadata_all_empty"}
            /\ IF _metadata_all_empty(meta)
               THEN Decide("Skipped(empty-metadata)")
               ELSE pc' = "build" /\ UNCHANGED <<decision, failed_seen>>
    /\ UNCHANGED <<config, fs, stop_event, gui, locals, done_logged, probes, raised,
                   fs_at_dispatch, formatted, reply_usable, raw_empty, dispatched,
                   abort_requested>>

\* a pipeline without the test of line 677
BuildNameNoSameCheck ==
    /\ pc = "build"
    /\ calls' = calls \cup {"build_new_filename"}
    /\ \E built \in {build_new_filename(meta, is_book)} :
           IF ~built.ok
           THEN ExceptHandler("build_new_filename") /\ UNCHANGED locals
           ELSE /\ new_name' = built.name
                /\ dst' = join(dirname(path), built.name)
                /\ pc' = "collide"
                /\ UNCHANGED <<idx, path, meta, base, ext, short, counter, raised,
                               decision, failed_seen>>
    /\ UNCHANGED <<config, fs, stop_event, gui, done_logged, probes, fs_at_dispatch,
                   formatted, reply_usable, raw_empty, dispatched, abort_requested>>

\* lines 674-678
BuildName ==
    /\ pc = "build"
    /\ calls' = calls \cup {"build_new_filename"}
    /\ \E built \in {build_new_filename(meta, is_book)} :
       \E d \in {join(dirname(path), built.name)} :
           IF ~built.ok
           THEN ExceptHandler("build_new_filename") /\ UNCHANGED locals
           ELSE /\ new_name' = built.name
                /\ dst' = d
                /\ UNCHANGED <<idx, path, meta, base, ext, short, counter, raised>>
                /\ IF abspath(path) = abspath(d)
                   THEN Decide("Skipped(same-name)")
                   ELSE pc' = "collide" /\ UNCHANGED <<decision, failed_seen>>
    /\ UNCHANGED <<config, fs, stop_event, gui, done_logged, probes, fs_at_dispatch,
                   formatted, reply_usable, raw_empty, dispatched, abort_requested>>

\* a pipeline that moves to the built name without asking whether it is taken
CollideNoExistenceTest ==
    /\ pc = "collide"
    /\ probes' = Append(probes, dst)
    /\ pc' = "replace"
    /\ UNCHANGED <<config, fs, stop_event, gui, done_logged, locals, decision, calls,
                   raised, failed_seen, fs_at_dispatch, formatted, reply_usable,
                   raw_empty, dispatched, abort_requested>>

\* lines 679-689: reading the source for its digest (line 686) can fail
Collide ==
    /\ pc = "collide"
    /\ probes' = Append(probes, dst)
    /\ IF ~exists(dst)
       THEN /\ pc' = "replace"
            /\ calls' = calls \cup {"exists"}
            /\ UNCHANGED <<locals, decision, raised, failed_seen>>
       ELSE /\ calls' = calls \cup {"exists", "_same_file"}
            /\ IF _same_file(path, dst)
               THEN Decide("DuplicateDetected") /\ UNCHANGED <<locals, raised>>
               ELSE \E read_ok \in BOOLEAN, h \in {_sha1_hex(path)} :
                    IF ~read_ok \/ h.err
                    THEN ExceptHandler("_sha1_hex") /\ UNCHANGED locals
                    ELSE /\ base' = splitext(new_name).base
                         /\ ext' = splitext(new_name).ext
                         /\ short' = SubSeq(h.hex, 1, 8)
                         /\ dst' = join(dirname(path),
                                        Candidate(splitext(new_name).base,
                                                  SubSeq(h.hex, 1, 8),
                                                  splitext(new_name).ext))
                         /\ counter' = 2
                         /\ pc' = "while"
                         /\ UNCHANGED <<idx, path, meta, new_name, decision, raised,
                                        failed_seen>>
    /\ UNCHANGED <<config, fs, stop_event, gui, done_logged, fs_at_dispatch,
                   formatted, reply_usable, raw_empty, dispatched, abort_requested>>

\* lines 690-695: one test of the loop condition.  A path is recorded as probed once
While ==
    /\ pc = "while"
    /\ probes' = IF probes[Len(probes)] = dst THEN probes ELSE Append(probes, dst)
    /\ calls' = calls \cup {"exists"} \cup (IF exists(dst) THEN {"_same_file"} ELSE {})
    /\ IF exists(dst) /\ ~_same_file(path, dst)
       THEN pc' = "while_body"
       ELSE pc' = "after_loop"
    /\ UNCHANGED <<config, fs, stop_event, gui, done_logged, locals, decision, raised,
                   fs_at_dispatch, formatted, reply_usable, raw_empty, dispatched,
                   failed_seen, abort_requested>>

\* a loop body that counts on and leaves the path to probe as it was
WhileBodyKeepsPath ==
    /\ pc = "while_body"
    /\ dst' = dst
    /\ counter' = IF counter <= MaxCounter THEN counter + 1 ELSE counter
    /\ pc' = "while"
    /\ UNCHANGED <<config, fs, stop_event, gui, done_logged, idx, path, meta, new_name,
                   base, ext, short, history, abort_requested>>

\* lines 696-697: the next numbered name.  Past MaxCounter the counter and the name
\* stand still, standing for all the later ones
WhileBody ==
    /\ pc = "while_body"
    /\ IF counter <= MaxCounter
       THEN /\ dst' = join(dirname(path), NumberedCandidate(base, short, counter, ext))
            /\ counter' = counter + 1
       ELSE UNCHANGED <<dst, counter>>
    /\ pc' = "while"
    /\ UNCHANGED <<config, fs, stop_event, gui, done_logged, idx, path, meta, new_name,
                   base, ext, short, history, abort_requested>>

\* a loop whose result is moved to without the second look at it
AfterLoopNoRecheck ==
    /\ pc = "after_loop"
    /\ pc' = "replace"
    /\ UNCHANGED <<config, fs, stop_event, gui, locals, done_logged, history,
                   abort_requested>>

\* lines 698-699
AfterLoop ==
    /\ pc = "after_loop"
    /\ IF exists(dst) /\ _same_file(path, dst)
       THEN Decide("DuplicateDetected")
       ELSE pc' = "replace" /\ UNCHANGED <<decision, failed_seen>>
    /\ UNCHANGED <<config, fs, stop_event, gui, locals, done_logged, calls, probes,
                   raised, fs_at_dispatch, formatted, reply_usable, raw_empty, dispatched,
                   abort_requested>>

\* lines 700-702: os.replace moves the file, or raises (no source file, or the
\* operating system refuses)
ReplaceFile ==
    /\ pc = "replace"
    /\ calls' = calls \cup {"os.replace"}
    /\ \E os_ok \in BOOLEAN :
          IF os_ok /\ abspath(path) \in DOMAIN fs
          THEN fs' = Moved(path, dst) /\ Decide("Renamed") /\ UNCHANGED raised
          ELSE ExceptHandler("os.replace") /\ UNCHANGED fs
    /\ UNCHANGED <<config, stop_event, gui, locals, done_logged, probes,
                   fs_at_dispatch, formatted, reply_usable, raw_empty, dispatched,
                   abort_requested>>

\* lines 706-708
LoopExit ==
    /\ pc = "tail"
    /\ done_logged' = ~stop_event
    /\ pc' = "exit"
    /\ UNCHANGED <<config, fs, stop_event, gui, locals, history, abort_requested>>

\* lines 803-804: the worker re-enables Start and disables Abort, and ends
ThreadExit ==
    /\ pc = "exit"
    /\ start_btn' = "normal" /\ abort_btn' = "disabled"
    /\ pc' = "done"
    /\ UNCHANGED <<config, fs, stop_event, locals, done_logged, history,
                   abort_requested>>

Worker ==
    \/ ProcessListBegin \/ LoopHead \/ CheckFormatted \/ Extract \/ SkipRules
    \/ BuildName \/ Collide \/ While \/ WhileBody \/ AfterLoop \/ ReplaceFile
    \/ LoopExit \/ ThreadExit

Next == on_start \/ on_abort \/ Worker

(***************************************************************************)
(* Initial states: the configuration, the batch and the directory          *)
(***************************************************************************)
\* a template with a misspelt placeholder: pattern.format raises KeyError
MisspeltPattern == "{journal} - {year} - {author} - {title}.pdf"

\* the name the main reply builds under the configuration in force
TargetName == build_new_filename(get_metadata_from_snippet(MainReply).meta, is_book).name

\* the i-th name of the directory a document named like name and holding content
\* would be given: the name itself, then the digest-suffixed names
Slot(name, content, i) ==
    LET b == splitext(name).base
        e == splitext(name).ext
        d == SubSeq(Sha1Hex(content), 1, 8)
    IN  IF i = 0 THEN name
        ELSE IF i = 1 THEN b \o " [" \o d \o "]" \o e
        ELSE b \o " [" \o d \o "-" \o IntToStr(i) \o "]" \o e

SourceLetters == "abcdefgh"
SourceName(i) == Char(SourceLetters, i) \o ".pdf"

ChainFiles == {File("P", TRUE), File("P", FALSE), File("Q", TRUE), File("PQ", TRUE)}

\* n documents; the first holds "P" and is named "a.pdf", or already bears the
\* target name; k files stand in the way, on the first free slots of the first
\* document
InitDirectory(n, k, atTarget, contents, chain) ==
    \E target \in {TargetName} :
    \E names \in {[i \in 1..n |-> IF i = 1 /\ atTarget THEN target ELSE SourceName(i)]} :
    \E srcs \in {[i \in 1..n |-> abspath(join("d", names[i]))]} :
    \E slot \in {[j \in 1..k |->
                    abspath(join("d", Slot(target, "P",
                                           IF atTarget THEN j ELSE j - 1)))]} :
        /\ file_list = [i \in 1..n |-> join("d", names[i])]
        /\ fs = [p \in {srcs[i] : i \in 1..n} \cup {slot[j] : j \in 1..k} |->
                    IF \E i \in 1..n : srcs[i] = p
                    THEN File(contents[CHOOSE i \in 1..n : srcs[i] = p], TRUE)
                    ELSE chain[CHOOSE j \in 1..k : slot[j] = p]]

Init ==
    /\ UNPUBLISHED_PLACEHOLDER = DEFAULT_UNPUBLISHED
    /\ AUTHOR_FMT_PAPER = DEFAULT_AUTHOR_FMT_PAPER
    /\ AUTHOR_FMT_BOOK = DEFAULT_AUTHOR_FMT_BOOK
    /\ BOOK_OUTPUT_PATTERN = DEFAULT_BOOK_OUTPUT_PATTERN
    /\ OUTPUT_PATTERN \in {DEFAULT_OUTPUT_PATTERN, MisspeltPattern}
    /\ is_book \in BOOLEAN
    /\ API_KEY \in BOOLEAN
    /\ fs_stable \in BOOLEAN
    /\ is_book => OUTPUT_PATTERN = DEFAULT_OUTPUT_PATTERN
    /\ \E n \in 1..MaxBatch, k \in 0..MaxChain, atTarget \in BOOLEAN :
         \E contents \in [1..n -> {"P", "Q"}], chain \in [1..k -> ChainFiles] :
            /\ \A i \in 1..n : i # 2 => contents[i] = "P"
            /\ \A j \in 1..(k - 1) : chain[j].content # "P"
            /\ (~API_KEY \/ ~fs_stable \/ OUTPUT_PATTERN = MisspeltPattern)
                  => (k = 0 /\ ~atTarget /\ \A i \in 1..n : contents[i] = "P")
            /\ is_book => (k = 0 /\ ~atTarget)
            /\ InitDirectory(n, k, atTarget, contents, chain)
    /\ stop_event = FALSE
    /\ start_btn = "normal" /\ abort_btn = "disabled"
    /\ pc = "idle"
    /\ idx = 0 /\ path = "" /\ meta = NoMeta /\ new_name = "" /\ dst = ""
    /\ base = "" /\ ext = "" /\ short = "" /\ counter = 0
    /\ done_logged = FALSE
    /\ decision = "None" /\ calls = {} /\ probes = <<>> /\ raised = ""
    /\ fs_at_dispatch = fs /\ formatted = "None"
    /\ reply_usable = FALSE /\ raw_empty = FALSE
    /\ dispatched = <<>> /\ abort_requested = FALSE /\ failed_seen = FALSE
    /\ fs_at_start = fs
    /\ call = NoCall

Spec == Init /\ [][Next]_vars

\* the batches of one document, with a worker thread that keeps running until it
\* ends; the user need not press anything
OneDocument == Init /\ Len(file_list) = 1
FairSpec == OneDocument /\ [][Next]_vars /\ WF_vars(Worker)

\* the worker thread can take a step exactly while it runs
WorkerRuns == pc \notin {"idle", "done"}

\* every batch on a stable file system, with a worker thread that keeps running
\* until it ends: weak fairness of Worker, written with the condition under which
\* Worker is enabled
StableDirectory == Init /\ fs_stable
FairBatch ==
    StableDirectory /\ [][Next]_vars /\ ([]<>(~WorkerRuns) \/ []<><<Worker>>_vars)

(***************************************************************************)
(* The functions of the module called on their own                         *)
(***************************************************************************)
\* the strings made of at most n pieces of an alphabet
RECURSIVE StringsUpTo(_, _)
StringsUpTo(alphabet, n) ==
    IF n = 0 THEN {""}
    ELSE LET shorter == StringsUpTo(alphabet, n - 1)
         IN  shorter \cup {s \o c : s \in shorter, c \in alphabet}

\* author names: at most MaxName pieces, each a one-letter token, the suffix "jr"
\* or a separator
MaxName == 4
NamePieces == {"D", "jr", " ", ","}
Names == StringsUpTo(NamePieces, MaxName)

\* author templates (AUTHOR_FMT_PAPER, AUTHOR_FMT_BOOK)
AuthorTemplates ==
    {DEFAULT_AUTHOR_FMT_PAPER, DEFAULT_AUTHOR_FMT_BOOK,
     "{first} ({middle}) {surname}",
     "{last}, {first_initial}. {middle_initials} {suffix}",
     "{first},{middle},{suffix},{family}",
     "({suffix})"}

\* no batch is running and none has run
NoBatch ==
    /\ API_KEY = TRUE /\ fs_stable = TRUE
    /\ file_list = <<>> /\ is_book = FALSE
    /\ fs = [p \in {} |-> File("", TRUE)] /\ fs_at_start = fs
    /\ stop_event = FALSE
    /\ start_btn = "normal" /\ abort_btn = "disabled"
    /\ pc = "idle"
    /\ idx = 0 /\ path = "" /\ meta = NoMeta /\ new_name = "" /\ dst = ""
    /\ base = "" /\ ext = "" /\ short = "" /\ counter = 0
    /\ done_logged = FALSE
    /\ decision = "None" /\ calls = {} /\ probes = <<>> /\ raised = ""
    /\ fs_at_dispatch = fs /\ formatted = "None"
    /\ reply_usable = FALSE /\ raw_empty = FALSE
    /\ dispatched = <<>> /\ abort_requested = FALSE /\ failed_seen = FALSE

batch == <<file_list, is_book, fs_stable, fs_at_start, fs, stop_event, gui, pc, locals,
           done_logged, history, abort_requested>>

Called(fn, arg, ret) ==
    /\ call = NoCall
    /\ call' = [fn |-> fn, arg |-> arg, ret |-> ret]
    /\ UNCHANGED <<settings, batch>>

\* lines 507-523, on a name
CallParseAuthor ==
    \E full \in Names : Called("_parse_author", full, _parse_author(full))

\* line 555: the author template of a mode
TemplateOf(book) == IF book THEN AUTHOR_FMT_BOOK ELSE AUTHOR_FMT_PAPER

\* lines 533-552, on the template of a mode and a parsed name (lines 560-561)
CallRenderAuthor ==
    \E full \in Names, book \in BOOLEAN :
    \E comps \in {_parse_author(full)} :
        Called("_render_author", [fmt |-> TemplateOf(book), comps |-> comps],
               _render_author(TemplateOf(book), comps))

\* the lists of at most n elements of a set
RECURSIVE ListsUpTo(_, _)
ListsUpTo(elements, n) ==
    IF n = 0 THEN {<<>>}
    ELSE LET shorter == ListsUpTo(elements, n - 1)
         IN  shorter \cup {Append(l, e) : l \in shorter, e \in elements}

\* author lists as the cleaning can leave them, and as a caller can give them
MaxAuthors == 2
AuthorLists == ListsUpTo({"unknown", "Jane Q. Doe", "jr", ""}, MaxAuthors)

\* lines 554-564, on a list and a mode
CallFormatAuthorsList ==
    \E authors_list \in AuthorLists, book \in BOOLEAN :
        Called("format_authors_list", [authors_list |-> authors_list, is_book |-> book],
               format_authors_list(authors_list, book))

\* filename templates (OUTPUT_PATTERN, BOOK_OUTPUT_PATTERN): the defaults, one with
\* a misspelt placeholder, and some with reserved characters and doubled braces
FilenamePatterns ==
    {DEFAULT_OUTPUT_PATTERN, DEFAULT_BOOK_OUTPUT_PATTERN, MisspeltPattern,
     "{title}/{authors}: {year}?.pdf",
     "..\\{journal}|<{{{year}}}>*"}

\* extracted records whose fields carry reserved characters
MaxTitle == 2
TitlePieces == {"a", " ", "/", "\\", "?"}
Metas ==
    [authors : {<<>>, <<"A/B c*d">>}, year : {"19<9>"}, journal : {"", "J:K"},
     title : StringsUpTo(TitlePieces, MaxTitle)]

\* lines 569-580, on a record and a mode
CallBuildNewFilename ==
    \E m \in Metas, book \in BOOLEAN :
        Called("build_new_filename", [meta |-> m, is_book |-> book],
               build_new_filename(m, book))

\* replies of the extraction service that differ in the title: absent, no string,
\* a word with or without blanks around it, or any short string
TitleWords ==
    {"", "unknowntitle", "UnknownTitle", "UNKNOWNTITLE", "unknown title",
     "unknowntitles", "None", "anonymous", "N/A", "na", "Unknown", "unknown author",
     "UnknownAuthors", "a study", "nA tIoN"}
RawTitles ==
    {JNull, JNum("7"), JNum("0"), JBool(FALSE), JList(<<>>), JList(<<JStr("a")>>)}
    \cup {JStr(lead \o w \o trail) : lead \in {"", " "}, w \in TitleWords,
                                      trail \in {"", "\n"}}
    \cup {JStr(t) : t \in StringsUpTo(TitlePieces, MaxTitle)}
TitleReplies ==
    {Reply("dict", MainReply.authors, MainReply.year, MainReply.journal, traw) :
        traw \in RawTitles}

\* lines 444-489, on a reply
CallGetMetadata ==
    \E reply \in TitleReplies :
        Called("get_metadata_from_snippet", reply, get_metadata_from_snippet(reply))

\* the settings are the defaults but for one of them at most
DirectInit ==
    /\ NoBatch
    /\ call = NoCall
    /\ UNPUBLISHED_PLACEHOLDER \in {DEFAULT_UNPUBLISHED, "n/a"}
    /\ OUTPUT_PATTERN \in FilenamePatterns
    /\ BOOK_OUTPUT_PATTERN \in FilenamePatterns
    /\ AUTHOR_FMT_PAPER \in AuthorTemplates
    /\ AUTHOR_FMT_BOOK \in AuthorTemplates
    /\ Cardinality({k \in 1..5 :
            <<UNPUBLISHED_PLACEHOLDER, OUTPUT_PATTERN, BOOK_OUTPUT_PATTERN,
              AUTHOR_FMT_PAPER, AUTHOR_FMT_BOOK>>[k]
            # <<DEFAULT_UNPUBLISHED, DEFAULT_OUTPUT_PATTERN,
                DEFAULT_BOOK_OUTPUT_PATTERN, DEFAULT_AUTHOR_FMT_PAPER,
                DEFAULT_AUTHOR_FMT_BOOK>>[k]}) <= 1

DirectNext ==
    \/ CallParseAuthor \/ CallRenderAuthor \/ CallFormatAuthorsList
    \/ CallBuildNewFilename \/ CallGetMetadata

DirectCalls == DirectInit /\ [][DirectNext]_vars

(***************************************************************************)
(* Properties                                                              *)
(***************************************************************************)
\* the worker has left the loop of process_list
BatchOver == pc \in {"tail", "exit", "done"}

IsPrefix(s, t) == Len(s) <= Len(t) /\ s = SubSeq(t, 1, Len(s))

\* C1: a document the format validator reports as formatted ends AlreadyFormatted:
\* neither extract_first_n_pages nor get_metadata_from_snippet is called for it, and
\* the file system is as it was when the document was dispatched.
C1_AlreadyFormattedSkipsExtraction ==
    formatted = "True" =>
        /\ decision = "AlreadyFormatted"
        /\ calls = {"filename_already_formatted"}
        /\ fs = fs_at_dispatch

\* the second document of a batch was reported as formatted, after a first one that
\* was renamed
C1_Witness ==
    /\ formatted = "True" /\ idx = 2 /\ pc = "loop_head"
    /\ fs # [p \in {} |-> 0] /\ abspath(file_list[1]) \notin DOMAIN fs

\* C2: a document for which the snippet extraction, the metadata extraction, the
\* filename build, the collision resolution or the move raises ends Failed, and
\* the documents are dispatched in the order of the list, all of them once the
\* batch is over unless Abort was pressed.
C2_FailureDoesNotStopTheBatch ==
    /\ raised # "" => decision = "Failed"
    /\ IsPrefix(dispatched, file_list)
    /\ (failed_seen /\ BatchOver /\ ~abort_requested) => dispatched = file_list

\* a batch of two is over: a document failed and the last one was renamed
C2_Witness ==
    /\ failed_seen /\ BatchOver /\ ~abort_requested
    /\ Len(file_list) = 2 /\ decision = "Renamed"

\* the file of the document in hand, and the files in its way, when it was dispatched
SourceFile == fs_at_dispatch[abspath(path)]
HeldAt(p) == fs_stable /\ abspath(p) \in DOMAIN fs_at_dispatch
SameContentAt(p) ==
    /\ fs_stable
    /\ LET q == abspath(p)
       IN  q \in DOMAIN fs_at_dispatch
           /\ fs_at_dispatch[q].content = SourceFile.content
\* what _same_file answers for the source and p on that file system
ReportedSameAt(p) == SameContentAt(p) /\ fs_at_dispatch[abspath(p)].readable

\* the outcome of a document that met its own content on a path it probed
EndsAsDuplicate(i) ==
    /\ i = Len(probes)
    /\ decision = "DuplicateDetected" \/ (pc = "after_loop" /\ decision = "None")
    /\ "os.replace" \notin calls
    /\ fs = fs_at_dispatch

\* C3, as stated: when a probed path exists and holds the content of the source, the
\* document, unless it fails, ends DuplicateDetected, os.replace is not called and the
\* file system is unchanged.
C3_SameContentIsDuplicate ==
    \A i \in 1..Len(probes) :
        (SameContentAt(probes[i]) /\ decision \notin {"None", "Failed"})
            => EndsAsDuplicate(i)

\* C3, amended: when a probed path exists and _same_file reports it equal to the
\* source (same size, both files readable, same digest) the document ends
\* DuplicateDetected, os.replace is not called and the file system is unchanged.
C3_ReportedSameIsDuplicate ==
    /\ \A i \in 1..Len(probes) : ReportedSameAt(probes[i]) => EndsAsDuplicate(i)
    /\ (fs = fs_at_dispatch /\ ~BatchOver) =>
          \A i \in 1..Len(probes) : ReportedSameAt(probes[i]) = _same_file(path, probes[i])

\* the duplicate was found under a digest-suffixed name, in the loop
C3_Witness ==
    /\ decision = "DuplicateDetected" /\ Len(probes) = 2
    /\ ReportedSameAt(probes[2]) /\ ~SameContentAt(probes[1])

\* the i-th path the collision resolution is to probe
ExpectedProbe(i) == join(dirname(path), Slot(new_name, SourceFile.content, i - 1))

\* C4: the probed paths are the built name, then the name with the first 8 hex
\* digits of the digest of the source, then that name numbered 2, 3, 4, ... in this
\* order; the file is moved to the first probed path that does not exist.
C4_ProbesInOrder ==
    /\ \A i \in 1..Len(probes) : probes[i] = ExpectedProbe(i)
    /\ (pc = "replace" \/ decision = "Renamed") =>
          /\ dst = probes[Len(probes)]
          /\ ~HeldAt(dst)
          /\ \A i \in 1..(Len(probes) - 1) : HeldAt(probes[i])
    /\ decision = "Renamed" =>
          /\ abspath(dst) \in DOMAIN fs /\ fs[abspath(dst)] = SourceFile
          /\ abspath(path) \notin DOMAIN fs

\* the document was renamed to the name numbered 2
C4_Witness ==
    /\ decision = "Renamed" /\ Len(probes) = 3
    /\ dst = join(dirname(path), NumberedCandidate(base, short, 2, ext))

\* C5: once Abort has set the flag for a started batch, no further document is
\* dispatched.
C5_NoDispatchAfterAbort == [][abort_requested => dispatched' = dispatched]_vars

\* the record was extracted for the document in hand, and the skip rules have run
Extracted == "get_metadata_from_snippet" \in calls /\ raised = ""
NothingBuiltOrMoved ==
    /\ calls \cap {"build_new_filename", "exists", "_same_file", "os.replace"} = {}
    /\ new_name = "" /\ probes = <<>>
    /\ fs = fs_at_dispatch

\* C6: in book mode a document whose extraction gives an empty title ends
\* Skipped(book-title-missing), whatever the other fields are, the emptiness of all
\* of them included; no filename is built and no file is moved.
C6_BookTitleMissing ==
    (is_book /\ Extracted /\ Strip(meta.title) = "" /\ pc # "skip_rules") =>
        /\ decision = "Skipped(book-title-missing)"
        /\ NothingBuiltOrMoved

\* a book whose record has no field at all was skipped for its title
C6_Witness ==
    /\ is_book /\ Extracted /\ pc = "loop_head"
    /\ _metadata_all_empty(meta)
    /\ decision = "Skipped(book-title-missing)"

\* C7: in paper mode a record whose authors, year, journal and title are all absent,
\* blank or tokens for unknown is cleaned to a record _metadata_all_empty accepts, and
\* the document ends Skipped(empty-metadata); build_new_filename is not called and no
\* file is moved.
C7_EmptyRecordIsSkipped ==
    (~is_book /\ raw_empty) =>
        /\ Extracted /\ _metadata_all_empty(meta)
        /\ pc = "skip_rules" \/ decision = "Skipped(empty-metadata)"
        /\ NothingBuiltOrMoved

\* a paper with such a record was skipped
C7_Witness ==
    ~is_book /\ raw_empty /\ pc = "loop_head" /\ decision = "Skipped(empty-metadata)"

\* the built name is the one the source already bears
SameName == new_name # "" /\ abspath(join(dirname(path), new_name)) = abspath(path)

\* C8: a document whose built path is its own path ends Skipped(same-name): no
\* existence test, no comparison and no move is made for it.
C8_SameNameIsSkipped ==
    SameName =>
        /\ decision = "Skipped(same-name)"
        /\ calls \cap {"exists", "_same_file", "os.replace"} = {}
        /\ probes = <<>>
        /\ fs = fs_at_dispatch

\* a document that bears its built name was skipped, in a directory where the
\* digest-suffixed name exists too
C8_Witness ==
    /\ SameName /\ decision = "Skipped(same-name)" /\ pc = "loop_head"
    /\ HeldAt(ExpectedProbe(2))

\* C9: when the validator call raises, its reply is no JSON object, or "ok" is
\* missing or neither a boolean nor a string, filename_already_formatted returns
\* False and the document goes on to the extraction: it ends neither
\* AlreadyFormatted nor Failed by the validator.
C9_ValidatorFailsOpen ==
    (formatted # "None" /\ ~reply_usable) =>
        /\ formatted = "False"
        /\ decision # "AlreadyFormatted"
        /\ raised # "filename_already_formatted"
        /\ IF pc = "extract" THEN decision = "None"
           ELSE "extract_first_n_pages" \in calls

\* after an unusable reply the record was extracted and the document renamed
C9_Witness ==
    formatted = "False" /\ ~reply_usable /\ Extracted /\ decision = "Renamed"

\* C10: when every probed path is reported to exist and never to equal the source,
\* the loop stops and the document ends Failed.
C10_LoopEndsFailed == (~fs_stable /\ pc = "while") ~> (decision = "Failed")

\* C11: on a stable file system a started batch finishes; on the way every
\* collision loop is left, with a free path or a content match (and without counting
\* as far as the model can count), and every document is left with a terminal
\* decision.
C11_StableBatchFinishes ==
    /\ (fs_stable /\ pc = "begin") ~> (pc = "done")
    /\ [](fs_stable => counter <= MaxCounter)
    /\ []((fs_stable /\ pc = "after_loop") => (~exists(dst) \/ _same_file(path, dst)))
    /\ []((fs_stable /\ idx >= 1 /\ pc \in {"loop_head", "tail", "exit", "done"})
            => decision # "None")

\* a batch of two has finished; the loop of its last document went past two taken
\* names to a free one
C11_Witness ==
    /\ fs_stable /\ pc = "done" /\ idx = 2 /\ Len(file_list) = 2
    /\ Len(probes) = 3 /\ decision = "Renamed"

\* the whitespace-delimited tokens of a name, and the tokens _parse_author works
\* on: those of the name with ";" and "," read as spaces, less a last one that is a
\* suffix
TokensOf(full) == Split(full)
NameTokens(full) ==
    LET all == Split(SeparatorsToSpaces(full))
    IN  IF all # <<>> /\ StrLower(all[Len(all)]) \in _SUFFIXES
        THEN SubSeq(all, 1, Len(all) - 1) ELSE all
\* the last token of a name "after suffix stripping"
LastTokenLessSuffix(full) ==
    LET all == TokensOf(full)
        kept == IF StrLower(all[Len(all)]) \in _SUFFIXES
                THEN SubSeq(all, 1, Len(all) - 1) ELSE all
    IN  IF kept = <<>> THEN "" ELSE kept[Len(kept)]

\* C12, as stated: for a name of two or more whitespace-delimited tokens the surname
\* is the last token once a suffix is stripped, and first is the first token.
C12_SurnameLastFirstFirst ==
    (call.fn = "_parse_author" /\ Len(TokensOf(call.arg)) >= 2) =>
        /\ call.ret.surname = LastTokenLessSuffix(call.arg)
        /\ call.ret.first = TokensOf(call.arg)[1]

\* C12, amended: when two or more tokens are left of a name once ";" and "," are read
\* as spaces and a last token that is a suffix is taken off, the surname is the last
\* of them and first is the first of them.
C12_SurnameLastFirstFirstOfRest ==
    (call.fn = "_parse_author" /\ Len(NameTokens(call.arg)) >= 2) =>
        /\ call.ret.surname = NameTokens(call.arg)[Len(NameTokens(call.arg))]
        /\ call.ret.first = NameTokens(call.arg)[1]

\* a name of two tokens was parsed, the first of them ending in a comma
C12_Witness ==
    /\ call.fn = "_parse_author" /\ Len(TokensOf(call.arg)) = 2
    /\ Len(NameTokens(call.arg)) = 2 /\ call.ret.first # TokensOf(call.arg)[1]

\* what the template of a mode makes of the name "unknown", which parses to a
\* surname alone
RenderOfUnknown(book) == _render_author(TemplateOf(book), Comps("", "", "unknown", ""))

\* C13, as stated: under every author template the empty list and the list
\* ["unknown"] both give "UnknownAuthors".
C13_UnknownIsUnknownAuthors ==
    (call.fn = "format_authors_list" /\ call.arg.authors_list \in {<<>>, <<"unknown">>})
        => call.ret = "UnknownAuthors"

\* C13, amended: under every author template the empty list gives "UnknownAuthors";
\* the list ["unknown"] gives "UnknownAuthors" when the template renders that name
\* to the empty string, and that render otherwise.
C13_EmptyIsUnknownAuthors ==
    call.fn = "format_authors_list" =>
        /\ call.arg.authors_list = <<>> => call.ret = "UnknownAuthors"
        /\ call.arg.authors_list = <<"unknown">> =>
              call.ret = IF RenderOfUnknown(call.arg.is_book) = ""
                         THEN "UnknownAuthors"
                         ELSE RenderOfUnknown(call.arg.is_book)

\* the list ["unknown"] was formatted under a template that renders it to nothing
C13_Witness ==
    /\ call.fn = "format_authors_list" /\ call.arg.authors_list = <<"unknown">>
    /\ call.ret = "UnknownAuthors"

\* C14: the cleanup of _render_author, applied to what it made of a template filled
\* in with a parsed name, changes nothing.
C14_CleanupIsIdempotent ==
    call.fn = "_render_author" =>
        LET out == Cleanup(Substitute(call.arg.fmt, call.arg.comps))
        IN  Cleanup(out) = out

\* the characters no file name may hold
Reserved == {"<", ">", ":", "\"", "/", "\\", "|", "?", "*"}
HasReserved(s) == \E i \in 1..Len(s) : Char(s, i) \in Reserved

\* C15: a name build_new_filename returns holds none of the characters
\* < > : " / \ | ? * and has no directory component.
C15_NoReservedCharacter ==
    (call.fn = "build_new_filename" /\ call.ret.ok) =>
        /\ ~HasReserved(call.ret.name)
        /\ dirname(call.ret.name) = "" /\ basename(call.ret.name) = call.ret.name

\* a name was built from a title with a backslash in it, under a template that
\* has reserved characters of its own
C15_Witness ==
    /\ call.fn = "build_new_filename" /\ call.ret.ok /\ ~call.arg.is_book
    /\ Find(call.arg.meta.title, "\\") > 0
    /\ HasReserved(OUTPUT_PATTERN)

\* C16, as stated: a name of one or more whitespace-delimited tokens parses to a
\* surname that is not empty.
C16_SurnameNotEmpty ==
    (call.fn = "_parse_author" /\ Len(TokensOf(call.arg)) >= 1) =>
        call.ret.surname # ""

\* C16, amended: when one or more tokens are left of a name once ";" and "," are read
\* as spaces and a last token that is a suffix is taken off, the surname is not
\* empty; when none is left it is empty.
C16_SurnameNotEmptyOfRest ==
    call.fn = "_parse_author" =>
        (Len(NameTokens(call.arg)) >= 1 <=> call.ret.surname # "")

\* a name of a token and a suffix was parsed
C16_Witness ==
    /\ call.fn = "_parse_author" /\ Len(TokensOf(call.arg)) = 2
    /\ Len(NameTokens(call.arg)) = 1 /\ call.ret.suffix # ""

\* the raw title of a reply is absent or a string; it is blank
TitleIsText(reply) == reply.kind = "dict" /\ reply.title.t \in {"null", "str"}
BlankTitle(reply) == reply.title.t = "null" \/ Strip(reply.title.s) = ""
\* the raw title, trimmed and in lower case, is one of the words
TitleAmong(reply, words) ==
    reply.title.t = "str" /\ StrLower(Strip(reply.title.s)) \in words

\* C17, as stated: the cleaned title is empty exactly when the raw title is blank or
\* is "unknowntitle" in any case; every other title is kept, trimmed and title-cased.
C17_TitleEmptyIffUnknownTitle ==
    (call.fn = "get_metadata_from_snippet" /\ TitleIsText(call.arg)) =>
        /\ call.ret.ok
        /\ call.ret.meta.title =
              IF BlankTitle(call.arg) \/ TitleAmong(call.arg, {"unknowntitle"})
              THEN ""
              ELSE titlecase(Strip(call.arg.title.s))

\* C17, amended: the cleaned title is empty exactly when the raw title is blank or,
\* in any case, is "unknowntitle" or one of the words for unknown that the authors
\* and the journal are cleaned with; every other title is kept, trimmed and
\* title-cased.
C17_TitleEmptyIffSentinel ==
    (call.fn = "get_metadata_from_snippet" /\ TitleIsText(call.arg)) =>
        /\ call.ret.ok
        /\ call.ret.meta.title =
              IF \/ BlankTitle(call.arg)
                 \/ TitleAmong(call.arg, {"unknowntitle", "unknown", "n/a", "na", "none",
                                          "anonymous", "unknown author",
                                          "unknownauthors"})
              THEN ""
              ELSE titlecase(Strip(call.arg.title.s))

\* a reply whose title is "unknowntitle" in capitals, with blanks around it, was
\* cleaned
C17_Witness ==
    /\ call.fn = "get_metadata_from_snippet" /\ call.ret.ok
    /\ call.arg.title = JStr(" UNKNOWNTITLE\n") /\ call.ret.meta.title = ""

\* how many files of a directory are the file x (its bytes, and whether they can be
\* read)
Copies(dir, x) == Cardinality({p \in DOMAIN dir : dir[p] = x})
SameFiles(dir, other) ==
    \A x \in {dir[p] : p \in DOMAIN dir} \cup {other[p] : p \in DOMAIN other} :
        Copies(dir, x) = Copies(other, x)

\* C18: on a file system only the pipeline changes, os.replace is about to be called
\* only with a destination that does not exist and is not the source, and the
\* directory holds the same files, as many times each, as before the batch: a file
\* is renamed, never overwritten or lost.
C18_NothingOverwritten ==
    fs_stable =>
        /\ pc = "replace" =>
              abspath(dst) \notin DOMAIN fs /\ abspath(dst) # abspath(path)
        /\ SameFiles(fs, fs_at_start)
        /\ Cardinality(DOMAIN fs) = Cardinality(DOMAIN fs_at_start)

\* two documents of a batch built the same name: the first was renamed to it, the
\* second, of other content, to the name with its digest
C18_Witness ==
    /\ fs_stable /\ BatchOver /\ Len(file_list) = 2 /\ decision = "Renamed"
    /\ Cardinality(DOMAIN fs_at_start) = 2
    /\ abspath(join(dirname(path), new_name)) \in DOMAIN fs
    /\ abspath(dst) \in DOMAIN fs /\ Len(probes) = 2
    /\ \A i \in 1..2 : abspath(file_list[i]) \notin DOMAIN fs

=============================================================================
